---- MODULE Spec2Model ----
(***************************************************************************)
(* Model of the iRacing SDK client (class iRacingSDK): the request         *)
(* executor `request`, `authenticate`, the chunked-response resolver       *)
(* `handleChunkedResponse` and `requestWithChunking`, together with the    *)
(* endpoint methods that validate their parameters and forward to them.    *)
(*                                                                         *)
(* A flow is one asynchronous call on the client.  Every `await` on the    *)
(* injected transport (fetchImpl) and on a timer (setTimeout) is a point   *)
(* where the flow is suspended: the flow's pc names the await it sits at.  *)
(* Optional JavaScript values are sequences of length 0 (undefined/null)   *)
(* or 1.  Strings that the code takes apart (file names, content types,    *)
(* e-mail addresses) are sequences of tokens.                              *)
(***************************************************************************)
EXTENDS Integers, Sequences, FiniteSets, TLC

VARIABLES autoHandleChunkedResponses, ssoCookieValue, authcode, now, fl

vars == <<autoHandleChunkedResponses, ssoCookieValue, authcode, now, fl>>

\* ---------------------------------------------------------------- bounds
\* Largest number of chunk files a descriptor announces.
MaxChunks == 2

\* ------------------------------------------------------ program constants
\* Pause after each successfully fetched chunk of a chunk loop (ms).
ChunkDelayMs == 100
\* Factor from the epoch seconds of x-ratelimit-reset to milliseconds.
MsPerSecond == 1000
\* Number(remaining) <= 1 makes request() consider waiting.
RateLimitFloor == 1

\* ------------------------------------------------------- optional values
None == <<>>
Some(v) == <<v>>
IsSome(o) == Len(o) > 0
Val(o) == o[1]

Flows == {1, 2}

\* ------------------------------------------------------------------ names
\* A file name or URL is a sequence of tokens; "." , "/" and "-" are the
\* tokens that are not word characters (\w) of a regular expression.
NonWord == {".", "/", "-"}
IsWord(tok) == tok \notin NonWord

BaseDownloadUrl == <<"https:", "/", "example", ".", "com", "/">>
NameA == <<"a", ".", "json">>
NameB == <<"b", ".", "json">>
ChunkFileName == <<"chunk_0", ".", "json">>
LinkUrl == <<"https:", "/", "s3", "/", "payload">>

\* String(i) for the loop index of the fallback branch.
DecimalDigits == <<"0", "1", "2", "3", "4", "5", "6", "7", "8", "9">>
IndexToString(i) == DecimalDigits[i + 1]

\* name.replace(/\.\w+$/, ''): the match starts at the first "." that is
\* followed, up to the end of the name, by one or more word tokens only.
ExtStarts(name) ==
  {p \in 1..Len(name) : /\ name[p] = "."
                        /\ p < Len(name)
                        /\ \A q \in (p + 1)..Len(name) : IsWord(name[q])}
StripExtension(name) ==
  IF ExtStarts(name) = {} THEN name
  ELSE LET p == CHOOSE x \in ExtStarts(name) : \A y \in ExtStarts(name) : x <= y
       IN  SubSeq(name, 1, p - 1)

\* `${chunk_file_name.replace(/\.\w+$/, '')}_${i}.json`
IndexedChunkFileName(chunkFileName, i) ==
  StripExtension(chunkFileName) \o <<"_", IndexToString(i), ".", "json">>

\* `${base_download_url}${chunkFileName}`
ChunkUrl(baseDownloadUrl, chunkFileName) == baseDownloadUrl \o chunkFileName

\* ---------------------------------------------------- chunk descriptors
\* Alternating list b, a, b, ... of length n: not sorted, with repeats.
AlternatingNames(n) == [i \in 1..n |-> IF i % 2 = 1 THEN NameB ELSE NameA]

ChunkFileNamesValues ==
  {None, Some(<<>>), Some(AlternatingNames(MaxChunks))}

Descriptor(total, num, rows, name, names) ==
  [base_download_url |-> BaseDownloadUrl, total_chunks |-> total,
   num_chunks |-> num, rows |-> rows,
   chunk_file_name |-> name, chunk_file_names |-> names]

\* Descriptors of the legacy shape (total_chunks, chunk_file_name).
TopDescriptors ==
  {Descriptor(t, None, Some(r), n, l) :
     t \in {None, Some(0), Some(1), Some(MaxChunks)},
     r \in {0, 5},
     n \in {None, Some(ChunkFileName)},
     l \in ChunkFileNamesValues}

\* Descriptors of the nested shape (num_chunks, chunk_file_names).
NestedDescriptors ==
  {Descriptor(None, c, Some(r), None, l) :
     c \in {None, Some(0), Some(MaxChunks)},
     r \in {0, 5},
     l \in ChunkFileNamesValues}

\* -------------------------------------------------------- raw responses
\* The `data` field of a decoded body: absent, an array of records, or an
\* object that may carry its own chunk_info next to its own data array.
AbsentData == [kind |-> "absent", items |-> <<>>, chunk_info |-> None]
ArrayData(items) == [kind |-> "array", items |-> items, chunk_info |-> None]
ObjectData(items, chunkInfo) ==
  [kind |-> "object", items |-> items, chunk_info |-> chunkInfo]

RawResponse(link, chunkInfo, data) ==
  [link |-> link, chunk_info |-> chunkInfo, data |-> data, success |-> TRUE]

\* Legacy descriptors that are paired with a nested descriptor: one per
\* branch of the top-level strategy.
PairedTopDescriptors ==
  {Descriptor(Some(1), None, Some(5), Some(ChunkFileName), None),
   Descriptor(Some(MaxChunks), None, Some(5), None,
              Some(AlternatingNames(MaxChunks))),
   Descriptor(Some(MaxChunks), None, Some(5), Some(ChunkFileName), None)}

Responses ==
  \* no top-level chunk_info
  {RawResponse(l, None, d) :
     l \in {None, Some(LinkUrl)},
     d \in {AbsentData, ArrayData(<<7>>), ObjectData(<<7>>, None)}
           \cup {ObjectData(<<>>, Some(c)) : c \in NestedDescriptors}}
  \cup
  \* top-level chunk_info, data without chunk_info
  {RawResponse(l, Some(c), ArrayData(<<>>)) :
     l \in {None, Some(LinkUrl)}, c \in TopDescriptors}
  \cup
  {RawResponse(None, Some(c), d) :
     c \in TopDescriptors, d \in {AbsentData, ObjectData(<<7>>, None)}}
  \cup
  \* top-level chunk_info and data.chunk_info
  {RawResponse(None, Some(t), ObjectData(<<>>, Some(c))) :
     t \in PairedTopDescriptors, c \in NestedDescriptors}
  \cup
  {RawResponse(Some(LinkUrl), Some(t), ObjectData(<<>>, Some(c))) :
     t \in PairedTopDescriptors,
     c \in {Descriptor(None, Some(MaxChunks), Some(5), None,
                       Some(AlternatingNames(MaxChunks)))}}

\* ------------------------------------------------- resolution strategies
NonEmptyList(names) == IsSome(names) /\ Len(Val(names)) > 0

\* The chunk_file_names list tried before the single-chunk case.
StrategyNamesFirst(response) ==
  IF IsSome(response.link) /\ ~IsSome(response.chunk_info) THEN "link"
  ELSE IF response.data.kind # "absent" /\ IsSome(response.data.chunk_info)
  THEN LET ci == Val(response.data.chunk_info)
       IN  IF ci.num_chunks = Some(0) \/ ci.rows = Some(0) THEN "nested_empty"
           ELSE IF NonEmptyList(ci.chunk_file_names) THEN "nested_named"
           ELSE "nested_asis"
  ELSE IF ~IsSome(response.chunk_info) THEN "pass"
  ELSE LET ci == Val(response.chunk_info)
       IN  IF NonEmptyList(ci.chunk_file_names) THEN "named"
           ELSE IF IsSome(ci.chunk_file_name) /\ ci.total_chunks = Some(1)
           THEN "single"
           ELSE "fallback"

\* The nested branch without its num_chunks / rows short-circuit.
StrategyWithoutShortCircuit(response) ==
  IF IsSome(response.link) /\ ~IsSome(response.chunk_info) THEN "link"
  ELSE IF response.data.kind # "absent" /\ IsSome(response.data.chunk_info)
  THEN LET ci == Val(response.data.chunk_info)
       IN  IF NonEmptyList(ci.chunk_file_names) THEN "nested_named"
           ELSE "nested_asis"
  ELSE IF ~IsSome(response.chunk_info) THEN "pass"
  ELSE LET ci == Val(response.chunk_info)
       IN  IF IsSome(ci.chunk_file_name) /\ ci.total_chunks = Some(1)
           THEN "single"
           ELSE IF NonEmptyList(ci.chunk_file_names) THEN "named"
           ELSE "fallback"

\* The top-level chunk_info consulted before data.chunk_info.
StrategyTopLevelFirst(response) ==
  IF IsSome(response.link) /\ ~IsSome(response.chunk_info) THEN "link"
  ELSE IF IsSome(response.chunk_info)
  THEN LET ci == Val(response.chunk_info)
       IN  IF IsSome(ci.chunk_file_name) /\ ci.total_chunks = Some(1)
           THEN "single"
           ELSE IF NonEmptyList(ci.chunk_file_names) THEN "named"
           ELSE "fallback"
  ELSE IF response.data.kind # "absent" /\ IsSome(response.data.chunk_info)
  THEN LET ci == Val(response.data.chunk_info)
       IN  IF ci.num_chunks = Some(0) \/ ci.rows = Some(0) THEN "nested_empty"
           ELSE IF NonEmptyList(ci.chunk_file_names) THEN "nested_named"
           ELSE "nested_asis"
  ELSE "pass"

\* Which branch of handleChunkedResponse a response takes.
Strategy(response) ==
  IF IsSome(response.link) /\ ~IsSome(response.chunk_info) THEN "link"
  ELSE IF response.data.kind # "absent" /\ IsSome(response.data.chunk_info)
  THEN LET ci == Val(response.data.chunk_info)
       IN  IF ci.num_chunks = Some(0) \/ ci.rows = Some(0) THEN "nested_empty"
           ELSE IF NonEmptyList(ci.chunk_file_names) THEN "nested_named"
           ELSE "nested_asis"
  ELSE IF ~IsSome(response.chunk_info) THEN "pass"
  ELSE LET ci == Val(response.chunk_info)
       IN  IF IsSome(ci.chunk_file_name) /\ ci.total_chunks = Some(1)
           THEN "single"
           ELSE IF NonEmptyList(ci.chunk_file_names) THEN "named"
           ELSE "fallback"

\* The descriptor the chosen branch reads.
ActiveDescriptor(response) ==
  IF Strategy(response) \in {"nested_empty", "nested_named", "nested_asis"}
  THEN Val(response.data.chunk_info)
  ELSE Val(response.chunk_info)

\* Number of iterations of `for (i = 0; i < total_chunks; i++)`.
FallbackCount(ci) == IF IsSome(ci.total_chunks) THEN Val(ci.total_chunks) ELSE 0

\* ------------------------------------------------------ errors, results
Error(name, message, status) ==
  [name |-> name, message |-> message, status |-> status]
NoError == Error("", "", 0)

\* Exceptions the injected transport can raise.
TransportErrors == {Error("FetchError", "Network error", 0),
                    Error("AbortError", "socket hang up", 0)}

\* parsed.error of a failed safeParse
ZodError == Error("ZodError", "invalid input", 0)
\* res.json() on a body that is not JSON, or spreading a body that is not
\* an array into chunks.push(...)
DecodeError == Error("SyntaxError", "Unexpected token", 0)
\* chunkInfo.chunk_file_name.replace on an undefined chunk_file_name
UndefinedNameError ==
  Error("TypeError", "Cannot read properties of undefined", 0)

\* new Date(NaN).toISOString()
RangeError == Error("RangeError", "Invalid time value", 0)

NoResult == [kind |-> "none", v |-> <<>>]
Result(kind, v) == [kind |-> kind, v |-> v]

\* Non-success HTTP status codes the servers answer with.
FailureStatuses == {401, 500}

\* Parsed chunk files: arrays of records (record ids), unsorted and with
\* ids that repeat inside a chunk and across chunks.
ChunkBodies == {<<2, 1>>, <<1, 1>>}
\* Body of the link target.
LinkBodies == {<<"payload-1">>, <<"payload-2">>}

\* -------------------------------------------------------- transport log
\* One entry per call of fetchImpl: the URL, the request body sent, the
\* time the call was issued, and what came back (remaining and reset are
\* the x-ratelimit headers of a link, chunk or auth response).
Call(url, sent, at) ==
  [url |-> url, sent |-> sent, at |-> at, kind |-> "pending",
   status |-> 0, body |-> <<>>, raised |-> NoError,
   remaining |-> None, reset |-> None]
Settle(calls, kind, status, body) ==
  [calls EXCEPT ![Len(calls)] =
     [@ EXCEPT !.kind = kind, !.status = status, !.body = body]]
\* x-ratelimit-remaining / x-ratelimit-reset of a response.
RateHeaders(remaining, reset) == [remaining |-> remaining, reset |-> reset]
NoRateHeaders == RateHeaders(None, None)
ExhaustedHeaders == RateHeaders(Some("0"), Some("3"))
\* The response to the last call carried these rate limit headers.
WithHeaders(calls, rate) ==
  [calls EXCEPT ![Len(calls)] =
     [@ EXCEPT !.remaining = rate.remaining, !.reset = rate.reset]]
\* The call was rejected with exception e.
Reject(calls, e) ==
  [calls EXCEPT ![Len(calls)] = [@ EXCEPT !.kind = "neterr", !.raised = e]]

\* ------------------------------------------------------------ the flows
IdleFlow ==
  [pc |-> "idle", method |-> "none", params |-> "absent", email |-> <<>>,
   password |-> "", handleChunks |-> None, calls |-> <<>>,
   head |-> None, raw |-> None, strategy |-> "none", idx |-> 0,
   chunks |-> <<>>, outcome |-> "none", result |-> NoResult,
   error |-> NoError, waitUntil |-> None, timer |-> None,
   setCookie |-> None, contentType |-> None, previous |-> "none"]
OffFlow == [IdleFlow EXCEPT !.pc = "off"]

Returned(rec, result) ==
  [rec EXCEPT !.pc = "done", !.outcome = "returned", !.result = result]
Thrown(rec, error) ==
  [rec EXCEPT !.pc = "done", !.outcome = "thrown", !.error = error]

Max(a, b) == IF a >= b THEN a ELSE b

\* ------------------------------------------------- handleChunkedResponse
\* Name of the chunk file the loop is at.  idx is the position in
\* chunk_file_names (from 1) or the index i of the fallback loop (from 0).
ChunkFileNameAt(rec) ==
  LET ci == ActiveDescriptor(Val(rec.raw))
  IN  CASE rec.strategy \in {"nested_named", "named"} ->
             Val(ci.chunk_file_names)[rec.idx]
        [] rec.strategy = "single" -> Val(ci.chunk_file_name)
        [] rec.strategy = "fallback" ->
             IndexedChunkFileName(Val(ci.chunk_file_name), rec.idx)

\* The fetch of a chunk issued together with a second fetch of it,
\* without awaiting the first.
FetchChunkAhead(rec, t) ==
  LET ci == ActiveDescriptor(Val(rec.raw))
      call == Call(ChunkUrl(ci.base_download_url, ChunkFileNameAt(rec)),
                   None, t)
  IN  [rec EXCEPT !.pc = "chunk", !.calls = Append(Append(@, call), call)]

\* await this.fetchImpl(chunkUrl)
FetchChunk(rec, t) ==
  LET ci == ActiveDescriptor(Val(rec.raw))
  IN  [rec EXCEPT !.pc = "chunk",
                  !.calls = Append(@, Call(ChunkUrl(ci.base_download_url,
                                                    ChunkFileNameAt(rec)),
                                           None, t))]

\* The chunks stored into the object received: `response.data = chunks;
\* return response` (and the same on nestedData).
CombineInPlace(rec) ==
  LET r == Val(rec.raw)
  IN  IF rec.strategy = "nested_named"
      THEN Returned([rec EXCEPT !.raw = Some([r EXCEPT !.data.items = rec.chunks])],
                    Result("nested", [r.data EXCEPT !.items = rec.chunks]))
      ELSE Returned([rec EXCEPT !.raw = Some([r EXCEPT !.data = ArrayData(rec.chunks)])],
                    Result("response",
                           [r EXCEPT !.data = ArrayData(rec.chunks)]))

\* return { ...nestedData, data: chunks, chunk_info } and
\* return { ...response, data: chunks, chunk_info: chunkInfo }
Combine(rec) ==
  LET r == Val(rec.raw)
  IN  IF rec.strategy = "nested_named"
      THEN Returned(rec, Result("nested",
                                [r.data EXCEPT !.items = rec.chunks]))
      ELSE Returned(rec, Result("response",
                                [r EXCEPT !.data = ArrayData(rec.chunks)]))

\* The next iteration of a chunk loop, or the return after the last one.
NextChunk(rec, t) ==
  LET ci == ActiveDescriptor(Val(rec.raw))
  IN  IF rec.strategy = "fallback"
      THEN IF rec.idx + 1 < FallbackCount(ci)
           THEN FetchChunk([rec EXCEPT !.idx = @ + 1], t)
           ELSE Combine(rec)
      ELSE IF rec.idx < Len(Val(ci.chunk_file_names))
           THEN FetchChunk([rec EXCEPT !.idx = @ + 1], t)
           ELSE Combine(rec)

\* handleChunkedResponse(response) up to its first await or its return.
HandleChunkedResponse(rec0, response, t) ==
  LET rec == [rec0 EXCEPT !.strategy = Strategy(response)]
      st == Strategy(response)
  IN  CASE st = "link" ->
             [rec EXCEPT !.pc = "link",
                         !.calls = Append(@, Call(Val(response.link), None, t))]
        [] st \in {"nested_empty", "nested_asis"} ->
             Returned(rec, Result("nested", response.data))
        [] st = "nested_named" -> FetchChunk([rec EXCEPT !.idx = 1], t)
        [] st = "pass" -> Returned(rec, Result("response", response))
        [] st = "single" -> FetchChunk(rec, t)
        [] st = "named" -> FetchChunk([rec EXCEPT !.idx = 1], t)
        [] st = "fallback" ->
             LET ci == Val(response.chunk_info)
             IN  IF FallbackCount(ci) = 0 THEN Combine(rec)
                 ELSE IF ~IsSome(ci.chunk_file_name)
                 THEN Thrown(rec, UndefinedNameError)
                 ELSE FetchChunk([rec EXCEPT !.idx = 0], t)

\* A value the resolver returned, read the way handleChunkedResponse
\* reads its argument: its link, chunk_info and data fields.  The object
\* returned by the nested branch has its chunk_info and its record array
\* at top level; a text or a decoded link body has none of the fields.
AsResponse(result) ==
  CASE result.kind = "response" -> result.v
    [] result.kind = "nested" ->
         RawResponse(None, result.v.chunk_info, ArrayData(result.v.items))
    [] OTHER -> RawResponse(None, None, AbsentData)

\* --------------------------------------------------- requestWithChunking
\* The per-call value ignored: this.autoHandleChunkedResponses alone.
ShouldHandleChunksFlagOnly(handleChunks, autoHandle) == autoHandle

\* handleChunks !== undefined ? handleChunks : this.autoHandleChunkedResponses
ShouldHandleChunks(handleChunks, autoHandle) ==
  IF IsSome(handleChunks) THEN Val(handleChunks) ELSE autoHandle

\* response.chunk_info || response.link
HasChunkMarker(response) ==
  IsSome(response.chunk_info) \/ IsSome(response.link)

\* requestWithChunking handing back response.data in place of response.
AfterRequestUnwrapping(rec, response, autoHandle, t) ==
  IF /\ ShouldHandleChunks(rec.handleChunks, autoHandle)
     /\ HasChunkMarker(response)
  THEN HandleChunkedResponse(rec, response, t)
  ELSE Returned(rec, Result("nested", response.data))

\* What follows `const response = await this.request(...)` in
\* requestWithChunking.
AfterRequest(rec, response, autoHandle, t) ==
  IF /\ ShouldHandleChunks(rec.handleChunks, autoHandle)
     /\ HasChunkMarker(response)
  THEN HandleChunkedResponse(rec, response, t)
  ELSE Returned(rec, Result("response", response))

\* ------------------------------------------------------ endpoint methods
\* One endpoint method per combination of parameter schema and request
\* helper, and requestWithChunking itself with an explicit handleChunks.
Methods == {"getCars", "getLeague", "getLeagueDirectory",
            "getResultsSearchSeries", "requestWithChunking"}

SchemaOf(method) ==
  CASE method \in {"getLeague", "getResultsSearchSeries"} -> "required"
    [] method = "getLeagueDirectory" -> "optional"
    [] OTHER -> "none"

\* TRUE for the methods that return this.requestWithChunking(...), FALSE
\* for those that return this.request(...).
UsesChunking(method) == method # "getLeague"

\* Arguments a caller passes: nothing, an object that satisfies the
\* method's schema, or an object that does not.
ParamValues == {"absent", "valid", "invalid"}

\* Every method validating only under `if (params)`.
ParamsRejectedWhenGiven(method, params) ==
  SchemaOf(method) # "none" /\ params = "invalid"

\* if (params) { safeParse } for optional parameters, safeParse(params)
\* for required ones.
ParamsRejected(method, params) ==
  CASE SchemaOf(method) = "required" -> params # "valid"
    [] SchemaOf(method) = "optional" -> params = "invalid"
    [] OTHER -> FALSE

ApiBaseUrl == <<"https:", "/", "members-ng", ".", "iracing", ".", "com">>
PathOf(method) ==
  CASE method = "getCars" -> <<"/", "data", "/", "car", "/", "get">>
    [] method = "getLeague" -> <<"/", "data", "/", "league", "/", "get">>
    [] method = "getLeagueDirectory" ->
         <<"/", "data", "/", "league", "/", "directory">>
    [] method = "getResultsSearchSeries" ->
         <<"/", "data", "/", "results", "/", "search_series">>
    [] method = "authenticate" -> <<"/", "auth">>
    [] OTHER -> <<"/", "data", "/", "any">>

\* ----------------------------------------------------------- rate limit
\* Number(header): a decimal string, the empty string (0) or NaN (None).
NumberOf(text) ==
  CASE text = "" -> Some(0)
    [] text = "0" -> Some(0)
    [] text = "1" -> Some(1)
    [] text = "2" -> Some(2)
    [] text = "3" -> Some(3)
    [] text = "10" -> Some(10)
    [] OTHER -> None

RemainingValues ==
  {None, Some(""), Some("0"), Some("1"), Some("2"), Some("10"), Some("many")}
ResetValues == {None, Some(""), Some("0"), Some("2"), Some("3"), Some("soon")}

\* Clock reading when the client is constructed, and how long the origin
\* may take to answer the endpoint request (ms).
StartTimes == {500}
Latencies == {0, 1800}

\* The reset header taken for milliseconds.
RateLimitWaitMsUnscaled(remaining, reset, t) ==
  IF /\ IsSome(remaining)
     /\ IsSome(reset) /\ Val(reset) # ""
     /\ IsSome(NumberOf(Val(remaining)))
     /\ Val(NumberOf(Val(remaining))) <= RateLimitFloor
     /\ IsSome(NumberOf(Val(reset)))
  THEN Max(0, Val(NumberOf(Val(reset))) - t)
  ELSE 0

\* The milliseconds request() sleeps for after a response with these
\* x-ratelimit-remaining / x-ratelimit-reset headers read at time t.
RateLimitWaitMs(remaining, reset, t) ==
  IF /\ IsSome(remaining)
     /\ IsSome(reset) /\ Val(reset) # ""
     /\ IsSome(NumberOf(Val(remaining)))
     /\ Val(NumberOf(Val(remaining))) <= RateLimitFloor
     /\ IsSome(NumberOf(Val(reset)))
  THEN Max(0, Val(NumberOf(Val(reset))) * MsPerSecond - t)
  ELSE 0

\* reset ? new Date(Number(reset) * 1000).toISOString() : undefined, in
\* the log of the rate limit headers: the date of a reset header that is
\* not a number cannot be formatted.
InvalidResetDate(reset) ==
  /\ IsSome(reset)
  /\ Val(reset) # ""
  /\ ~IsSome(NumberOf(Val(reset)))

ResponseHead(ok, status, remaining, reset, t) ==
  [ok |-> ok, status |-> status, remaining |-> remaining, reset |-> reset,
   at |-> t]

\* if (!res.ok) throw new Error(`HTTP error! status: ${res.status}`);
\* otherwise on to `return res.json()`.
StatusCheck(rec) ==
  IF ~Val(rec.head).ok
  THEN Thrown(rec, Error("Error", "HTTP error! status: ", Val(rec.head).status))
  ELSE [rec EXCEPT !.pc = "decode"]

\* -------------------------------------------------------------- actions
\* An endpoint method queued behind the rate limit wait of another call.
CallEndpointBehindWindow(f, method, params, handleChunks) ==
  /\ fl[f].pc = "idle"
  /\ \A g \in Flows : fl[g].pc # "rate_wait"
  /\ fl' = [fl EXCEPT ![f] =
       LET rec == [@ EXCEPT !.method = method, !.params = params,
                            !.handleChunks = handleChunks]
       IN  IF ParamsRejected(method, params) THEN Thrown(rec, ZodError)
           ELSE [rec EXCEPT !.pc = "request",
                            !.calls = Append(@, Call(ApiBaseUrl \o PathOf(method),
                                                     None, now))]]
  /\ UNCHANGED <<autoHandleChunkedResponses, ssoCookieValue, authcode, now>>

\* An endpoint method refusing to start without a stored session token.
CallEndpointRequiringSession(f, method, params, handleChunks) ==
  /\ fl[f].pc = "idle"
  /\ fl' = [fl EXCEPT ![f] =
       LET rec == [@ EXCEPT !.method = method, !.params = params,
                            !.handleChunks = handleChunks]
       IN  IF ParamsRejected(method, params) THEN Thrown(rec, ZodError)
           ELSE IF ssoCookieValue = None
           THEN Thrown(rec, Error("Error", "Not authenticated", 0))
           ELSE [rec EXCEPT !.pc = "request",
                            !.calls = Append(@, Call(ApiBaseUrl \o PathOf(method),
                                                     None, now))]]
  /\ UNCHANGED <<autoHandleChunkedResponses, ssoCookieValue, authcode, now>>

\* A public endpoint method (or requestWithChunking) is called: parameter
\* validation, then request() up to `await this.fetchImpl(url, ...)`.
CallEndpoint(f, method, params, handleChunks) ==
  /\ fl[f].pc = "idle"
  /\ fl' = [fl EXCEPT ![f] =
       LET rec == [@ EXCEPT !.method = method, !.params = params,
                            !.handleChunks = handleChunks]
       IN  IF ParamsRejected(method, params) THEN Thrown(rec, ZodError)
           ELSE [rec EXCEPT !.pc = "request",
                            !.calls = Append(@, Call(ApiBaseUrl \o PathOf(method),
                                                     None, now))]]
  /\ UNCHANGED <<autoHandleChunkedResponses, ssoCookieValue, authcode, now>>

\* The transport rejects the endpoint request.
RequestFails(f, e) ==
  /\ fl[f].pc = "request"
  /\ fl' = [fl EXCEPT ![f] =
       Thrown([@ EXCEPT !.calls = Reject(@, e)], e)]
  /\ UNCHANGED <<autoHandleChunkedResponses, ssoCookieValue, authcode, now>>

\* request() checking the status before the rate limit headers.
RequestAnsweredStatusFirst(f, ok, status, remaining, reset, latency) ==
  /\ fl[f].pc = "request"
  /\ now' = now + latency
  /\ fl' = [fl EXCEPT ![f] =
       LET waitMs == RateLimitWaitMs(remaining, reset, now')
           rec == [@ EXCEPT
                     !.calls = Settle(@, IF ok THEN "ok" ELSE "status",
                                      status, <<>>),
                     !.head = Some(ResponseHead(ok, status, remaining,
                                                reset, now'))]
       IN  IF InvalidResetDate(reset) THEN Thrown(rec, RangeError)
           ELSE IF ~ok THEN StatusCheck(rec)
           ELSE IF waitMs > 0
           THEN [rec EXCEPT !.pc = "rate_wait",
                            !.waitUntil = Some(now' + waitMs)]
           ELSE StatusCheck(rec)]
  /\ UNCHANGED <<autoHandleChunkedResponses, ssoCookieValue, authcode>>

\* The transport answers the endpoint request: request() reads the rate
\* limit headers and either sleeps, throws on the status, or goes on to
\* res.json().
RequestAnswered(f, ok, status, remaining, reset, latency) ==
  /\ fl[f].pc = "request"
  /\ now' = now + latency
  /\ fl' = [fl EXCEPT ![f] =
       LET waitMs == RateLimitWaitMs(remaining, reset, now')
           rec == [@ EXCEPT
                     !.calls = Settle(@, IF ok THEN "ok" ELSE "status",
                                      status, <<>>),
                     !.head = Some(ResponseHead(ok, status, remaining,
                                                reset, now'))]
       IN  IF InvalidResetDate(reset) THEN Thrown(rec, RangeError)
           ELSE IF waitMs > 0
           THEN [rec EXCEPT !.pc = "rate_wait",
                            !.waitUntil = Some(now' + waitMs)]
           ELSE StatusCheck(rec)]
  /\ UNCHANGED <<autoHandleChunkedResponses, ssoCookieValue, authcode>>

\* The rate limit timer fires: the status check of request().
RateLimitWake(f) ==
  /\ fl[f].pc = "rate_wait"
  /\ now' = Max(now, Val(fl[f].waitUntil))
  /\ fl' = [fl EXCEPT ![f] = StatusCheck(@)]
  /\ UNCHANGED <<autoHandleChunkedResponses, ssoCookieValue, authcode>>

\* res.json() fails: the body of the endpoint response is not JSON.
DecodeFails(f) ==
  /\ fl[f].pc = "decode"
  /\ fl' = [fl EXCEPT ![f] = Thrown([@ EXCEPT !.head = None], DecodeError)]
  /\ UNCHANGED <<autoHandleChunkedResponses, ssoCookieValue, authcode, now>>

\* res.json() yields the raw response; request() returns it, and
\* requestWithChunking decides whether to resolve it.
Decoded(f, response) ==
  /\ fl[f].pc = "decode"
  /\ fl' = [fl EXCEPT ![f] =
       LET rec == [@ EXCEPT !.head = None, !.raw = Some(response)]
       IN  IF UsesChunking(rec.method)
           THEN AfterRequest(rec, response, autoHandleChunkedResponses, now)
           ELSE Returned(rec, Result("response", response))]
  /\ UNCHANGED <<autoHandleChunkedResponses, ssoCookieValue, authcode, now>>

\* The named-list loops skipping a failed chunk as the fallback loop does.
AbsorbsInNamedLoops(strategy) ==
  strategy \in {"fallback", "named", "nested_named"}

\* The fallback loop without its try/catch and `continue`.
AbsorbsNowhere(strategy) == FALSE

\* The try/catch and the `continue` of the fallback loop: the only branch
\* in which a failed chunk does not end the call.
Absorbs(strategy) == strategy = "fallback"

\* chunks.unshift(...chunkData) in place of push
PushChunkInFront(chunks, chunkData) == chunkData \o chunks

\* chunks.push(...chunkData)
PushChunk(chunks, chunkData) == chunks \o chunkData

\* The exception of a chunk fetch rethrown inside a ChunkFetchError.
ChunkFailsWrapped(f, e) ==
  /\ fl[f].pc = "chunk"
  /\ fl' = [fl EXCEPT ![f] =
       LET rec == [@ EXCEPT !.calls = Reject(@, e)]
       IN  IF Absorbs(rec.strategy) THEN NextChunk(rec, now)
           ELSE Thrown(rec, Error("ChunkFetchError", e.message, 0))]
  /\ UNCHANGED <<autoHandleChunkedResponses, ssoCookieValue, authcode, now>>

\* A chunk fetch rejects, answers with a non-success status, or answers
\* with a body that is not a JSON array: caught inside the fallback loop,
\* thrown everywhere else.
ChunkFails(f, e) ==
  /\ fl[f].pc = "chunk"
  /\ fl' = [fl EXCEPT ![f] =
       LET rec == [@ EXCEPT !.calls = Reject(@, e)]
       IN  IF Absorbs(rec.strategy) THEN NextChunk(rec, now)
           ELSE Thrown(rec, e)]
  /\ UNCHANGED <<autoHandleChunkedResponses, ssoCookieValue, authcode, now>>

ChunkRefused(f, status) ==
  /\ fl[f].pc = "chunk"
  /\ fl' = [fl EXCEPT ![f] =
       LET rec == [@ EXCEPT !.calls = Settle(@, "status", status, <<>>)]
       IN  IF Absorbs(rec.strategy) THEN NextChunk(rec, now)
           ELSE Thrown(rec, Error("Error", "Failed to fetch chunk: ", status))]
  /\ UNCHANGED <<autoHandleChunkedResponses, ssoCookieValue, authcode, now>>

ChunkUndecodable(f) ==
  /\ fl[f].pc = "chunk"
  /\ fl' = [fl EXCEPT ![f] =
       LET rec == [@ EXCEPT !.calls = Settle(@, "badbody", 200, <<>>)]
       IN  IF Absorbs(rec.strategy) THEN NextChunk(rec, now)
           ELSE Thrown(rec, DecodeError)]
  /\ UNCHANGED <<autoHandleChunkedResponses, ssoCookieValue, authcode, now>>

\* `chunks` one array of the client, shared by the resolutions in
\* progress, in place of a local of each handleChunkedResponse call.
ChunkFetchedSharedBuffer(f, body, rate) ==
  /\ fl[f].pc = "chunk"
  /\ fl' = [g \in Flows |->
       IF g = f
       THEN LET rec == [fl[f] EXCEPT
                          !.calls = WithHeaders(Settle(@, "ok", 200, body), rate),
                          !.chunks = PushChunk(@, body)]
            IN  IF rec.strategy = "single" THEN Combine(rec)
                ELSE [rec EXCEPT !.pc = "delay",
                                 !.timer = Some(now + ChunkDelayMs)]
       ELSE IF fl[g].pc \in {"chunk", "delay"}
       THEN [fl[g] EXCEPT !.chunks = PushChunk(@, body)]
       ELSE fl[g]]
  /\ UNCHANGED <<autoHandleChunkedResponses, ssoCookieValue, authcode, now>>

\* A chunk fetch succeeds: chunks.push(...chunkData), then the pause of
\* the loop (the single-chunk branch has none).
ChunkFetched(f, body, rate) ==
  /\ fl[f].pc = "chunk"
  /\ fl' = [fl EXCEPT ![f] =
       LET rec == [@ EXCEPT !.calls = WithHeaders(Settle(@, "ok", 200, body),
                                                 rate),
                            !.chunks = PushChunk(@, body)]
       IN  IF rec.strategy = "single" THEN Combine(rec)
           ELSE [rec EXCEPT !.pc = "delay",
                            !.timer = Some(now + ChunkDelayMs)]]
  /\ UNCHANGED <<autoHandleChunkedResponses, ssoCookieValue, authcode, now>>

\* The pause after a chunk is over: next iteration or return.
DelayWake(f) ==
  /\ fl[f].pc = "delay"
  /\ now' = Max(now, Val(fl[f].timer))
  /\ fl' = [fl EXCEPT ![f] = NextChunk([@ EXCEPT !.timer = None], now')]
  /\ UNCHANGED <<autoHandleChunkedResponses, ssoCookieValue, authcode>>

\* content-type values of the link target; includes('text/csv') is the
\* presence of that token.
ContentTypes == {None, Some(<<"application/json">>), Some(<<"text/csv">>),
                 Some(<<"text/csv", ";", "charset=utf-8">>)}
\* contentType === 'text/csv' in place of includes('text/csv')
IsCsvExact(contentType) == contentType = Some(<<"text/csv">>)

\* contentType && contentType.includes('text/csv')
IsCsv(contentType) ==
  /\ IsSome(contentType)
  /\ \E i \in 1..Len(Val(contentType)) : Val(contentType)[i] = "text/csv"

LinkFails(f, e) ==
  /\ fl[f].pc = "link"
  /\ fl' = [fl EXCEPT ![f] =
       Thrown([@ EXCEPT !.calls = Reject(@, e)], e)]
  /\ UNCHANGED <<autoHandleChunkedResponses, ssoCookieValue, authcode, now>>

LinkRefused(f, status) ==
  /\ fl[f].pc = "link"
  /\ fl' = [fl EXCEPT ![f] =
       Thrown([@ EXCEPT !.calls = Settle(@, "status", status, <<>>)],
              Error("Error", "Failed to fetch linked data: ", status))]
  /\ UNCHANGED <<autoHandleChunkedResponses, ssoCookieValue, authcode, now>>

\* The link target answers: the raw text for CSV, the decoded JSON
\* otherwise (decodable says whether the body is JSON).
LinkFetched(f, contentType, body, decodable, rate) ==
  /\ fl[f].pc = "link"
  /\ fl' = [fl EXCEPT ![f] =
       LET rec == [@ EXCEPT !.calls = WithHeaders(Settle(@, "ok", 200, body),
                                                 rate),
                            !.contentType = contentType]
       IN  IF IsCsv(contentType) THEN Returned(rec, Result("text", body))
           ELSE IF ~decodable THEN Thrown(rec, DecodeError)
           ELSE Returned(rec, Result("json", body))]
  /\ UNCHANGED <<autoHandleChunkedResponses, ssoCookieValue, authcode, now>>

\* ---------------------------------------------------------- authenticate
Emails == {<<"USER", "@", "Example", ".", "com">>,
           <<"user", "@", "example", ".", "com">>,
           <<"invalid-email">>,
           <<"user", "@">>}
Passwords == {"p", "P"}

\* z.string().email(): one "@", a local part before it and a dotted
\* domain after it.
IsEmail(email) ==
  LET ats == {i \in 1..Len(email) : email[i] = "@"}
  IN  /\ Cardinality(ats) = 1
      /\ LET p == CHOOSE i \in ats : TRUE
         IN  /\ p > 1
             /\ Len(email) >= p + 3
             /\ IsWord(email[p + 1])
             /\ email[Len(email) - 1] = "."
             /\ IsWord(email[Len(email)])

TokenToLowerCase(tok) ==
  CASE tok = "USER" -> "user"
    [] tok = "Example" -> "example"
    [] OTHER -> tok
\* req.email.toLowerCase()
ToLowerCase(text) == [i \in 1..Len(text) |-> TokenToLowerCase(text[i])]

\* base64(SHA-256(text)): a digest is taken to identify its input.
HashBase64(text) == <<"sha256-base64:">> \o text

\* The digest taken over the password and the email as given.
AuthBodyHashingRawEmail(email, password) ==
  [email |-> ToLowerCase(email), password |-> HashBase64(<<password>> \o email)]

\* JSON.stringify({ email, password: hashBase64 })
AuthBody(email, password) ==
  LET lower == ToLowerCase(email)
  IN  [email |-> lower, password |-> HashBase64(<<password>> \o lower)]

\* Decoded bodies of the auth endpoint, with or without a link or a
\* chunk_info field, and its Set-Cookie header (a list of name=value
\* pairs).
AuthMarkers ==
  {[link |-> None, chunk_info |-> None],
   [link |-> Some(LinkUrl), chunk_info |-> None],
   [link |-> None,
    chunk_info |-> Some(Descriptor(Some(1), None, Some(5),
                                   Some(ChunkFileName), None))]}
AuthResponses ==
  {[ssoCookieValue |-> s, authcode |-> a, custId |-> 12345,
    link |-> m.link, chunk_info |-> m.chunk_info] :
     s \in {None, Some("sso-from-body")},
     a \in {None, Some("code-from-body")},
     m \in AuthMarkers}
Cookie(name, value) == [name |-> name, value |-> value]
SetCookieValues ==
  {None,
   Some(<<Cookie("other", "x")>>),
   Some(<<Cookie("other", "x"), Cookie("irsso_membersv2", "sso-from-cookie")>>)}

\* setCookie.match(/irsso_membersv2=([^;]+)/): the value of the first
\* such cookie, if any.
CookieMatch(setCookie) ==
  LET hits == {i \in 1..Len(setCookie) :
                 /\ setCookie[i].name = "irsso_membersv2"
                 /\ setCookie[i].value # ""}
  IN  IF hits = {} THEN None
      ELSE Some(setCookie[CHOOSE i \in hits : \A j \in hits : i <= j].value)

\* authenticate(req) up to `await this.fetchImpl(baseUrl + AUTH, ...)`.
Authenticate(f, email, password) ==
  /\ fl[f].pc = "idle"
  /\ fl' = [fl EXCEPT ![f] =
       LET rec == [@ EXCEPT !.method = "authenticate", !.email = email,
                            !.password = password]
       IN  IF ~IsEmail(email) THEN Thrown(rec, ZodError)
           ELSE [rec EXCEPT !.pc = "auth",
                            !.calls = Append(@,
                               Call(ApiBaseUrl \o PathOf("authenticate"),
                                    Some(AuthBody(email, password)), now))]]
  /\ UNCHANGED <<autoHandleChunkedResponses, ssoCookieValue, authcode, now>>

AuthFails(f, e) ==
  /\ fl[f].pc = "auth"
  /\ fl' = [fl EXCEPT ![f] =
       Thrown([@ EXCEPT !.calls = Reject(@, e)], e)]
  /\ UNCHANGED <<autoHandleChunkedResponses, ssoCookieValue, authcode, now>>

\* A refused authenticate dropping the stored session.
AuthRefusedClearingSession(f, status) ==
  /\ fl[f].pc = "auth"
  /\ fl' = [fl EXCEPT ![f] =
       Thrown([@ EXCEPT !.calls = Settle(@, "status", status, <<>>)],
              Error("Error", "HTTP error! status: ", status))]
  /\ ssoCookieValue' = None
  /\ authcode' = None
  /\ UNCHANGED <<autoHandleChunkedResponses, now>>

\* if (!res.ok) throw new Error(`HTTP error! status: ${res.status}`)
AuthRefused(f, status) ==
  /\ fl[f].pc = "auth"
  /\ fl' = [fl EXCEPT ![f] =
       Thrown([@ EXCEPT !.calls = Settle(@, "status", status, <<>>)],
              Error("Error", "HTTP error! status: ", status))]
  /\ UNCHANGED <<autoHandleChunkedResponses, ssoCookieValue, authcode, now>>

AuthUndecodable(f) ==
  /\ fl[f].pc = "auth"
  /\ fl' = [fl EXCEPT ![f] =
       Thrown([@ EXCEPT !.calls = Settle(@, "badbody", 200, <<>>)],
              DecodeError)]
  /\ UNCHANGED <<autoHandleChunkedResponses, ssoCookieValue, authcode, now>>

\* The Set-Cookie header consulted before the body.
AuthAnsweredCookieFirst(f, response, setCookie, rate) ==
  /\ fl[f].pc = "auth"
  /\ ssoCookieValue' =
       IF IsSome(setCookie) /\ IsSome(CookieMatch(Val(setCookie)))
       THEN CookieMatch(Val(setCookie))
       ELSE IF IsSome(response.ssoCookieValue) THEN response.ssoCookieValue
       ELSE ssoCookieValue
  /\ authcode' = IF IsSome(response.authcode) THEN response.authcode
                 ELSE authcode
  /\ fl' = [fl EXCEPT ![f] =
       Returned([@ EXCEPT !.calls = WithHeaders(Settle(@, "ok", 200,
                                                       <<response>>), rate),
                          !.setCookie = setCookie],
                Result("auth", response))]
  /\ UNCHANGED <<autoHandleChunkedResponses, now>>

\* An authenticate that follows the link of its response as the endpoint
\* methods do.
AuthAnsweredResolving(f, response, setCookie, rate) ==
  /\ fl[f].pc = "auth"
  /\ ssoCookieValue' =
       IF IsSome(response.ssoCookieValue) THEN response.ssoCookieValue
       ELSE IF IsSome(setCookie) /\ IsSome(CookieMatch(Val(setCookie)))
       THEN CookieMatch(Val(setCookie))
       ELSE ssoCookieValue
  /\ authcode' = IF IsSome(response.authcode) THEN response.authcode
                 ELSE authcode
  /\ fl' = [fl EXCEPT ![f] =
       LET rec == [@ EXCEPT !.calls = WithHeaders(Settle(@, "ok", 200,
                                                         <<response>>), rate),
                            !.setCookie = setCookie]
       IN  IF IsSome(response.link)
           THEN [rec EXCEPT !.pc = "link", !.strategy = "link",
                            !.calls = Append(@, Call(Val(response.link),
                                                     None, now))]
           ELSE Returned(rec, Result("auth", response))]
  /\ UNCHANGED <<autoHandleChunkedResponses, now>>

\* The auth endpoint answers with a success status, a Set-Cookie header
\* and a JSON body: the session fields are updated and the body is
\* returned.
AuthAnswered(f, response, setCookie, rate) ==
  /\ fl[f].pc = "auth"
  /\ ssoCookieValue' =
       IF IsSome(response.ssoCookieValue) THEN response.ssoCookieValue
       ELSE IF IsSome(setCookie) /\ IsSome(CookieMatch(Val(setCookie)))
       THEN CookieMatch(Val(setCookie))
       ELSE ssoCookieValue
  /\ authcode' = IF IsSome(response.authcode) THEN response.authcode
                 ELSE authcode
  /\ fl' = [fl EXCEPT ![f] =
       Returned([@ EXCEPT !.calls = WithHeaders(Settle(@, "ok", 200,
                                                       <<response>>), rate),
                          !.setCookie = setCookie],
                Result("auth", response))]
  /\ UNCHANGED <<autoHandleChunkedResponses, now>>

\* The caller has its answer from authenticate and makes its next call;
\* `previous` keeps how the call before ended.
NextCall(f) ==
  /\ fl[f].pc = "done"
  /\ fl[f].method = "authenticate"
  /\ fl' = [fl EXCEPT ![f] = [IdleFlow EXCEPT !.previous = fl[f].outcome]]
  /\ UNCHANGED <<autoHandleChunkedResponses, ssoCookieValue, authcode, now>>

\* ------------------------------------------------------- specification
\* new iRacingSDK(options): autoHandleChunkedResponses !== false
Constructor(autoHandleOption) == autoHandleOption # Some(FALSE)

Init ==
  /\ \E option \in {None, Some(TRUE), Some(FALSE)} :
       autoHandleChunkedResponses = Constructor(option)
  /\ ssoCookieValue = None
  /\ authcode = None
  /\ now \in StartTimes
  /\ fl = [f \in Flows |-> IF f = 1 THEN IdleFlow ELSE OffFlow]

HandleChunksValues(method) ==
  IF method = "requestWithChunking" THEN {Some(TRUE), Some(FALSE)} ELSE {None}

\* The steps of an endpoint call of flow f whose endpoint answers with a
\* body out of `responses` and whose link and chunk responses carry rate
\* limit headers out of `rates`.  The await a flow sits at is tested
\* before the inputs of the step are drawn.
EndpointStep(f, responses, rates) ==
  \/ \E m \in Methods, p \in ParamValues, h \in {None, Some(TRUE), Some(FALSE)} :
       /\ fl[f].pc = "idle"
       /\ h \in HandleChunksValues(m)
       /\ SchemaOf(m) = "none" => p = "absent"
       /\ CallEndpoint(f, m, p, h)
  \/ \E e \in TransportErrors : RequestFails(f, e)
  \/ /\ fl[f].pc = "request"
     /\ \E ok \in BOOLEAN, st \in FailureStatuses \cup {200},
           rem \in RemainingValues, rst \in ResetValues, lat \in Latencies :
          (ok <=> st = 200) /\ RequestAnswered(f, ok, st, rem, rst, lat)
  \/ RateLimitWake(f)
  \/ DecodeFails(f)
  \/ /\ fl[f].pc = "decode"
     /\ \E r \in responses : Decoded(f, r)
  \/ \E e \in TransportErrors : ChunkFails(f, e)
  \/ \E st \in FailureStatuses : ChunkRefused(f, st)
  \/ ChunkUndecodable(f)
  \/ \E b \in ChunkBodies, rate \in rates : ChunkFetched(f, b, rate)
  \/ DelayWake(f)
  \/ \E e \in TransportErrors : LinkFails(f, e)
  \/ \E st \in FailureStatuses : LinkRefused(f, st)
  \/ \E ct \in ContentTypes, b \in LinkBodies, d \in BOOLEAN, rate \in rates :
       LinkFetched(f, ct, b, d, rate)

\* The steps of an authenticate call of flow f.
AuthStep(f, rates) ==
  \/ /\ fl[f].pc = "idle"
     /\ \E em \in Emails, pw \in Passwords : Authenticate(f, em, pw)
  \/ \E e \in TransportErrors : AuthFails(f, e)
  \/ \E st \in FailureStatuses : AuthRefused(f, st)
  \/ AuthUndecodable(f)
  \/ /\ fl[f].pc = "auth"
     /\ \E r \in AuthResponses, sc \in SetCookieValues, rate \in rates :
          AuthAnswered(f, r, sc, rate)
  \/ NextCall(f)

\* One response per resolution strategy, for the calls that follow an
\* authenticate.
SessionResponses ==
  {RawResponse(None, None, ArrayData(<<7>>)),
   RawResponse(Some(LinkUrl), None, AbsentData),
   RawResponse(None, Some(Descriptor(Some(1), None, Some(5),
                                     Some(ChunkFileName), None)),
               ArrayData(<<>>)),
   RawResponse(None, Some(Descriptor(Some(MaxChunks), None, Some(5),
                                     Some(ChunkFileName), None)),
               ArrayData(<<>>)),
   RawResponse(None, Some(Descriptor(Some(MaxChunks), None, Some(5), None,
                                     Some(AlternatingNames(MaxChunks)))),
               ObjectData(<<>>, Some(Descriptor(None, Some(MaxChunks), Some(5),
                                     None, Some(AlternatingNames(MaxChunks))))))}

\* One client, one caller: any number of authenticate calls, then an
\* endpoint call.
Next ==
  \E f \in Flows : \/ EndpointStep(f, SessionResponses, {NoRateHeaders})
                    \/ AuthStep(f, {NoRateHeaders})

Spec == Init /\ [][Next]_vars

\* One client, one endpoint call, over every response shape.
EndpointNext == \E f \in Flows : EndpointStep(f, Responses, {NoRateHeaders})

EndpointSpec == Init /\ [][EndpointNext]_vars

\* One client, one caller, the origin announcing an exhausted rate limit
\* on the responses to authenticate and to link and chunk fetches as well.
RateLimitNext ==
  \E f \in Flows :
    \/ EndpointStep(f, SessionResponses, {NoRateHeaders, ExhaustedHeaders})
    \/ AuthStep(f, {NoRateHeaders, ExhaustedHeaders})

RateLimitSpec == Init /\ [][RateLimitNext]_vars

\* Two endpoint calls issued on one client without awaiting the first:
\* both flows start idle.
ConcurrentInit ==
  /\ autoHandleChunkedResponses = Constructor(None)
  /\ ssoCookieValue = None
  /\ authcode = None
  /\ now \in StartTimes
  /\ fl = [f \in Flows |-> IdleFlow]

\* Bodies the endpoint answers the concurrent calls with: a link, and a
\* list of named chunks.
ConcurrentResponses ==
  {RawResponse(Some(LinkUrl), None, AbsentData),
   RawResponse(None, Some(Descriptor(Some(MaxChunks), None, Some(5), None,
                                     Some(AlternatingNames(MaxChunks)))),
               ArrayData(<<>>))}

\* The steps of one of the concurrent calls.
\* Chunk contents the origin serves to each of the two calls: any for the
\* first, one for the second.
ConcurrentBodies(f) == IF f = 1 THEN ChunkBodies ELSE {<<1, 1>>}

ConcurrentStep(f) ==
  \/ CallEndpoint(f, "getCars", "absent", None)
  \/ /\ fl[f].pc = "request"
     /\ \E rem \in {None, Some("0")}, lat \in Latencies :
          /\ rem = None => lat = 0
          /\ RequestAnswered(f, TRUE, 200, rem, Some("3"), lat)
  \/ RateLimitWake(f)
  \/ /\ fl[f].pc = "decode"
     /\ \E r \in ConcurrentResponses : Decoded(f, r)
  \/ \E b \in ConcurrentBodies(f) : ChunkFetched(f, b, NoRateHeaders)
  \/ ChunkRefused(f, 500)
  \/ DelayWake(f)
  \/ \E b \in LinkBodies :
       LinkFetched(f, Some(<<"application/json">>), b, TRUE, NoRateHeaders)

ConcurrentNext == \E f \in Flows : ConcurrentStep(f)

ConcurrentSpec == ConcurrentInit /\ [][ConcurrentNext]_vars

\* =============================================================== claims
\* The transport calls a flow made after its endpoint request.
FollowUps(rec) == SubSeq(rec.calls, 2, Len(rec.calls))

\* Concatenation, in call order, of the bodies of the calls that came
\* back with a success status and a JSON array.
RECURSIVE FetchedRecords(_)
FetchedRecords(calls) ==
  IF calls = <<>> THEN <<>>
  ELSE (IF calls[1].kind = "ok" THEN calls[1].body ELSE <<>>)
       \o FetchedRecords(Tail(calls))

\* The data array of what a chunk-resolving call returned.
ResultRecords(rec) == IF rec.result.kind = "nested" THEN rec.result.v.items
                      ELSE rec.result.v.data.items

\* C1: in the two named-list branches the chunk fetches go to
\* base_download_url + name in the order of chunk_file_names, and when all
\* of them succeed the call returns with data equal to the concatenation
\* of the parsed chunks in that order, each chunk's order kept, nothing
\* dropped, deduplicated or sorted.
C1_NamedChunksInListOrder ==
  \A f \in Flows :
    LET rec == fl[f] IN
    rec.strategy \in {"nested_named", "named"} =>
      LET ci == ActiveDescriptor(Val(rec.raw))
          names == Val(ci.chunk_file_names)
          fetches == FollowUps(rec)
      IN  /\ Len(fetches) <= Len(names)
          /\ \A i \in 1..Len(fetches) :
               fetches[i].url = ci.base_download_url \o names[i]
          /\ rec.outcome = "returned" =>
               /\ Len(fetches) = Len(names)
               /\ ResultRecords(rec) = FetchedRecords(fetches)
          /\ (/\ rec.pc = "done"
              /\ Len(fetches) = Len(names)
              /\ \A i \in 1..Len(fetches) : fetches[i].kind = "ok")
             => /\ rec.outcome = "returned"
                /\ ResultRecords(rec) = FetchedRecords(fetches)

\* A call that merged, in list order, two chunks named b then a whose
\* contents differ and are not sorted.
C1_Witness ==
  \E f \in Flows :
    /\ fl[f].outcome = "returned"
    /\ fl[f].strategy \in {"nested_named", "named"}
    /\ Len(fl[f].calls) >= 3
    /\ fl[f].calls[2].url = BaseDownloadUrl \o NameB
    /\ fl[f].calls[3].url = BaseDownloadUrl \o NameA
    /\ fl[f].calls[2].body = <<2, 1>>
    /\ fl[f].calls[3].body = <<1, 1>>
    /\ ResultRecords(fl[f])[1] = 2
    /\ Len(ResultRecords(fl[f])) = 2 * MaxChunks

\* C2: a non-success status on the link fetch, on the single-chunk fetch
\* or on a chunk of a named list (nested or top-level) ends the call with
\* an error: nothing is returned and no further fetch follows the failing
\* one.
C2_FailedFetchIsFatal ==
  \A f \in Flows :
    LET rec == fl[f] IN
    \A k \in 2..Len(rec.calls) :
      (/\ rec.calls[k].kind = "status"
       /\ rec.strategy \in {"link", "single", "nested_named", "named"})
      => /\ k = Len(rec.calls)
         /\ rec.pc = "done"
         /\ rec.outcome = "thrown"
         /\ rec.result = NoResult
         /\ rec.error.status = rec.calls[k].status

\* A named list of several chunks whose first fetch was refused.
C2_Witness ==
  \E f \in Flows :
    /\ fl[f].strategy \in {"nested_named", "named"}
    /\ Len(Val(ActiveDescriptor(Val(fl[f].raw)).chunk_file_names)) >= 2
    /\ Len(fl[f].calls) = 2
    /\ fl[f].calls[2].kind = "status"
    /\ fl[f].outcome = "thrown"

\* C3: in the index-derived fallback branch a failing chunk fetch (status
\* or exception) is skipped and the remaining indices are still fetched;
\* the call returns the concatenation, in ascending index order, of
\* exactly the chunks that were fetched successfully.
C3_FallbackSkipsFailedChunks ==
  \A f \in Flows :
    LET rec == fl[f] IN
    (rec.strategy = "fallback" /\ Len(rec.calls) >= 2) =>
      LET ci == Val(Val(rec.raw).chunk_info)
          fetches == FollowUps(rec)
      IN  /\ rec.outcome # "thrown"
          /\ Len(fetches) <= FallbackCount(ci)
          /\ \A i \in 1..Len(fetches) :
               fetches[i].url =
                 ci.base_download_url
                   \o IndexedChunkFileName(Val(ci.chunk_file_name), i - 1)
          /\ rec.pc = "done" =>
               /\ rec.outcome = "returned"
               /\ Len(fetches) = FallbackCount(ci)
               /\ rec.result.v.data.items = FetchedRecords(fetches)

\* A fallback call that returned the later chunk alone after the fetch of
\* an earlier index failed.
C3_Witness ==
  \E f \in Flows :
    /\ fl[f].strategy = "fallback"
    /\ fl[f].outcome = "returned"
    /\ Len(fl[f].calls) = 1 + MaxChunks
    /\ fl[f].calls[2].kind \in {"status", "neterr"}
    /\ fl[f].calls[Len(fl[f].calls)].kind = "ok"
    /\ fl[f].result.v.data.items = fl[f].calls[Len(fl[f].calls)].body

\* A decoded response whose top-level chunk_info announces one chunk and
\* names it, handed to the resolver.
SingleChunkResolved(rec) ==
  /\ IsSome(rec.raw)
  /\ rec.strategy # "none"
  /\ IsSome(Val(rec.raw).chunk_info)
  /\ Val(Val(rec.raw).chunk_info).total_chunks = Some(1)
  /\ IsSome(Val(Val(rec.raw).chunk_info).chunk_file_name)

\* Exactly two transport calls, the second to base_download_url +
\* chunk_file_name, and the returned data is what that fetch parsed.
TwoCallsAndChunkAsData(rec) ==
  LET ci == Val(Val(rec.raw).chunk_info)
  IN  /\ Len(rec.calls) = 2
      /\ rec.calls[2].url = ci.base_download_url \o Val(ci.chunk_file_name)
      /\ rec.outcome = "returned" =>
           /\ rec.result.kind = "response"
           /\ rec.result.v.data.items = rec.calls[2].body

\* C4 as stated: every resolved response with a top-level chunk_info of
\* total_chunks = 1 and a chunk_file_name costs exactly two transport
\* calls and returns the parsed contents of the one chunk fetch as data.
C4_Original_SingleChunkAlwaysTwoCalls ==
  \A f \in Flows :
    (fl[f].pc = "done" /\ SingleChunkResolved(fl[f]))
      => TwoCallsAndChunkAsData(fl[f])

\* C4, amended: the same, for responses whose data carries no chunk_info
\* of its own (a data.chunk_info is resolved first and the top-level
\* descriptor is then not read).
C4_SingleChunkTwoCalls ==
  \A f \in Flows :
    (/\ fl[f].pc = "done"
     /\ SingleChunkResolved(fl[f])
     /\ ~IsSome(Val(fl[f].raw).data.chunk_info))
      => TwoCallsAndChunkAsData(fl[f])

\* A single-chunk response resolved with one fetch and returned.
C4_Witness ==
  \E f \in Flows :
    /\ fl[f].strategy = "single"
    /\ fl[f].outcome = "returned"
    /\ Len(fl[f].calls) = 2
    /\ fl[f].calls[2].url = BaseDownloadUrl \o ChunkFileName
    /\ fl[f].result.v.data.items = <<2, 1>>

\* No link and no chunk_info, at top level or under data.
Unmarked(response) ==
  /\ ~IsSome(response.link)
  /\ ~IsSome(response.chunk_info)
  /\ ~IsSome(response.data.chunk_info)

\* C5: a response without link and without chunk_info (top-level or
\* nested) is returned as decoded, after exactly one transport call.
C5_PassThrough ==
  \A f \in Flows :
    (IsSome(fl[f].raw) /\ Unmarked(Val(fl[f].raw)))
      => /\ fl[f].pc = "done"
         /\ fl[f].outcome = "returned"
         /\ fl[f].result = Result("response", Val(fl[f].raw))
         /\ Len(fl[f].calls) = 1

\* A plain response with a data object, returned by a chunk-handling call.
C5_Witness ==
  \E f \in Flows :
    /\ fl[f].outcome = "returned"
    /\ fl[f].method = "getCars"
    /\ autoHandleChunkedResponses
    /\ IsSome(fl[f].raw) /\ Unmarked(Val(fl[f].raw))
    /\ Val(fl[f].raw).data.kind = "object"
    /\ Len(fl[f].calls) = 1

\* C6: handleChunks decides when given, the client-wide flag (TRUE unless
\* the option is false) otherwise; with the effective value FALSE the call
\* makes one transport call and returns the raw response, whatever link
\* or chunk_info it carries; with it TRUE a marked response is resolved.
C6_HandleChunksGoverns ==
  /\ Constructor(None) /\ Constructor(Some(TRUE)) /\ ~Constructor(Some(FALSE))
  /\ \A f \in Flows :
       LET rec == fl[f]
           off == \/ rec.handleChunks = Some(FALSE)
                  \/ rec.handleChunks = None /\ ~autoHandleChunkedResponses
       IN  IsSome(rec.raw) =>
             /\ off => /\ rec.pc = "done"
                       /\ rec.outcome = "returned"
                       /\ rec.result = Result("response", Val(rec.raw))
                       /\ Len(rec.calls) = 1
             /\ (~off /\ UsesChunking(rec.method)
                 /\ (IsSome(Val(rec.raw).link)
                     \/ IsSome(Val(rec.raw).chunk_info)))
                => rec.strategy # "none"

\* A call with handleChunks = false on a client whose flag is on, that
\* returned a response with chunk_info and link untouched.
C6_Witness ==
  \E f \in Flows :
    /\ fl[f].handleChunks = Some(FALSE)
    /\ autoHandleChunkedResponses
    /\ fl[f].outcome = "returned"
    /\ IsSome(Val(fl[f].raw).chunk_info)
    /\ IsSome(Val(fl[f].raw).link)
    /\ Len(fl[f].calls) = 1

\* C7: after an endpoint response with x-ratelimit-remaining <= 1 and an
\* x-ratelimit-reset in the future the flow sleeps reset*1000 - now ms,
\* i.e. until the reset time: it makes no further transport call and does
\* not complete before then.  With remaining absent or above 1, or with a
\* reset time that is not in the future, it does not sleep.
C7_RateLimitSuspends ==
  \A f \in Flows :
    LET rec == fl[f] IN
    /\ IsSome(rec.head) =>
         LET h == Val(rec.head)
             rem == IF IsSome(h.remaining) THEN NumberOf(Val(h.remaining))
                    ELSE None
             rst == IF IsSome(h.reset) THEN NumberOf(Val(h.reset)) ELSE None
         IN  /\ (/\ IsSome(rem) /\ Val(rem) <= 1
                 /\ IsSome(rst) /\ Val(rst) * 1000 > h.at)
                => rec.waitUntil = Some(h.at + (Val(rst) * 1000 - h.at))
             /\ (\/ ~IsSome(h.remaining)
                 \/ IsSome(rem) /\ Val(rem) > 1
                 \/ IsSome(rst) /\ Val(rst) * 1000 <= h.at)
                => rec.waitUntil = None
    /\ IsSome(rec.waitUntil) =>
         /\ rec.calls[1].at < Val(rec.waitUntil)
         /\ \A k \in 2..Len(rec.calls) : rec.calls[k].at >= Val(rec.waitUntil)
         /\ rec.pc # "rate_wait" => now >= Val(rec.waitUntil)
    /\ rec.pc = "rate_wait" => IsSome(rec.waitUntil) /\ Len(rec.calls) = 1

\* A call that slept until the reset time and fetched its chunk after it.
C7_Witness ==
  \E f \in Flows :
    /\ fl[f].waitUntil = Some(2000)
    /\ fl[f].calls[1].at = 500
    /\ Len(fl[f].calls) >= 2
    /\ fl[f].calls[2].at = 2000
    /\ fl[f].outcome = "returned"

\* C8: a non-success status on the endpoint request fails the call with
\* 'HTTP error! status: N' after exactly one transport call: no retry, no
\* decoded body, no link or chunk fetch.
C8_HttpFailureNotRetried ==
  \A f \in Flows :
    LET rec == fl[f] IN
    (/\ rec.method \in Methods
     /\ Len(rec.calls) >= 1
     /\ rec.calls[1].kind = "status")
    => /\ Len(rec.calls) = 1
       /\ rec.raw = None
       /\ rec.pc \in {"rate_wait", "done"}
       /\ rec.pc = "done" =>
            /\ rec.outcome = "thrown"
            /\ rec.result = NoResult
            /\ rec.error = Error("Error", "HTTP error! status: ",
                                 rec.calls[1].status)

\* C9: an exception of the transport during the endpoint request, the
\* link fetch, the single-chunk fetch or a named-chunk fetch ends the call
\* with that very exception, no call following it; in the fallback loop,
\* and only there, it is absorbed.
C9_TransportErrorPropagates ==
  \A f \in Flows :
    LET rec == fl[f] IN
    rec.method \in Methods =>
      \A k \in 1..Len(rec.calls) :
        rec.calls[k].kind = "neterr" =>
          /\ rec.calls[k].raised \in TransportErrors
          /\ IF rec.strategy = "fallback"
             THEN rec.outcome # "thrown"
             ELSE /\ k = Len(rec.calls)
                  /\ rec.pc = "done"
                  /\ rec.outcome = "thrown"
                  /\ rec.result = NoResult
                  /\ rec.error = rec.calls[k].raised

\* A named-list call ended by the exception of its second chunk fetch.
C9_Witness ==
  \E f \in Flows :
    /\ fl[f].strategy \in {"named", "nested_named"}
    /\ Len(fl[f].calls) = 3
    /\ fl[f].calls[2].kind = "ok"
    /\ fl[f].calls[3].kind = "neterr"
    /\ fl[f].error = Error("AbortError", "socket hang up", 0)

\* Arguments that fail validation: an address that is no e-mail address,
\* an object that fails the method's schema, or none where the schema
\* requires one.
InvalidCall(rec) ==
  \/ /\ rec.method = "authenticate"
     /\ rec.email \in {<<"invalid-email">>, <<"user", "@">>}
  \/ /\ rec.method \in {"getLeague", "getResultsSearchSeries",
                        "getLeagueDirectory"}
     /\ rec.params = "invalid"
  \/ /\ rec.method \in {"getLeague", "getResultsSearchSeries"}
     /\ rec.params = "absent"

\* C10: authenticate with an invalid e-mail address, and an endpoint
\* method given parameters that fail its schema, reject without any
\* transport call and leave ssoCookieValue and authcode as they were.
C10_ValidationBeforeTransport ==
  /\ [](\A f \in Flows :
          InvalidCall(fl[f]) =>
            /\ fl[f].pc = "done"
            /\ fl[f].outcome = "thrown"
            /\ fl[f].error = ZodError
            /\ fl[f].calls = <<>>)
  /\ [][\A f \in Flows :
          InvalidCall(fl'[f]) /\ ~InvalidCall(fl[f]) =>
            /\ ssoCookieValue' = ssoCookieValue
            /\ authcode' = authcode]_vars

\* A client with a stored session that rejected an endpoint call for its
\* parameters.
C10_Witness ==
  \E f \in Flows :
    /\ ssoCookieValue = Some("sso-from-cookie")
    /\ authcode = Some("code-from-body")
    /\ fl[f].method = "getResultsSearchSeries"
    /\ fl[f].params = "invalid"
    /\ fl[f].error = ZodError

\* A step in which flow f's authenticate got a success status and a
\* decoded body.
AuthSucceeds(f) ==
  /\ fl[f].pc = "auth"
  /\ fl'[f].outcome = "returned"
  /\ fl'[f].calls[Len(fl'[f].calls)].kind = "ok"
  /\ fl'[f].calls[Len(fl'[f].calls)].body = <<fl'[f].result.v>>

\* C11: ssoCookieValue and authcode change only in a step in which an
\* authenticate call received a success status and decoded its body; a
\* step that ends a call with an error (validation, status, transport
\* exception) and every step of an endpoint call leave both as they were.
C11_SessionChangesOnlyOnAuthSuccess ==
  [][/\ (ssoCookieValue' # ssoCookieValue \/ authcode' # authcode)
          => \E f \in Flows : AuthSucceeds(f)
     /\ \A f \in Flows :
          (/\ fl'[f] # fl[f]
           /\ (fl'[f].method \in Methods \/ fl'[f].outcome = "thrown"))
          => /\ ssoCookieValue' = ssoCookieValue
             /\ authcode' = authcode]_vars

\* A client holding a session from an earlier authenticate whose next
\* authenticate was refused with 401.
C11_Witness ==
  \E f \in Flows :
    /\ ssoCookieValue = Some("sso-from-body")
    /\ authcode = Some("code-from-body")
    /\ fl[f].previous = "returned"
    /\ fl[f].method = "authenticate"
    /\ fl[f].outcome = "thrown"
    /\ Len(fl[f].calls) = 1
    /\ fl[f].calls[1].status = 401

\* C12: in the step that completes a successful authenticate the stored
\* token becomes the body's ssoCookieValue when the body has one, whatever
\* the Set-Cookie header says; it becomes the irsso_membersv2 cookie of
\* the header only when the body has none; and the call returns the
\* decoded body itself.
C12_TokenFromBodyThenCookie ==
  [][\A f \in Flows :
       AuthSucceeds(f) =>
         LET rec == fl'[f]
             body == rec.calls[Len(rec.calls)].body[1]
             cookies == IF IsSome(rec.setCookie) THEN Val(rec.setCookie)
                        ELSE <<>>
             named == {i \in 1..Len(cookies) :
                         cookies[i].name = "irsso_membersv2"}
         IN  /\ rec.result = Result("auth", body)
             /\ IsSome(body.ssoCookieValue)
                  => ssoCookieValue' = body.ssoCookieValue
             /\ (~IsSome(body.ssoCookieValue) /\ named # {})
                  => \E i \in named : ssoCookieValue' = Some(cookies[i].value)
             /\ IsSome(body.authcode) => authcode' = body.authcode]_vars

\* An authenticate whose body and Set-Cookie header both carried a token:
\* the body's is the one stored.
C12_Witness ==
  \E f \in Flows :
    /\ fl[f].method = "authenticate"
    /\ fl[f].outcome = "returned"
    /\ fl[f].result.v.ssoCookieValue = Some("sso-from-body")
    /\ IsSome(fl[f].setCookie)
    /\ CookieMatch(Val(fl[f].setCookie)) = Some("sso-from-cookie")
    /\ ssoCookieValue = Some("sso-from-body")

\* Neither the body nor the Set-Cookie header of the response carries a
\* session token.
NoToken(rec) ==
  /\ ~IsSome(rec.result.v.ssoCookieValue)
  /\ \/ ~IsSome(rec.setCookie)
     \/ \A i \in 1..Len(Val(rec.setCookie)) :
          Val(rec.setCookie)[i].name # "irsso_membersv2"

ChunkHandlingOn(rec) ==
  /\ UsesChunking(rec.method)
  /\ ShouldHandleChunks(rec.handleChunks, autoHandleChunkedResponses)

\* The only marker of the response is a chunk_info under data, with rows
\* and a list of chunk file names.
NestedMarkerOnly(response) ==
  /\ ~IsSome(response.link)
  /\ ~IsSome(response.chunk_info)
  /\ response.data.kind # "absent"
  /\ IsSome(response.data.chunk_info)
  /\ Val(response.data.chunk_info).rows = Some(5)
  /\ Val(response.data.chunk_info).num_chunks # Some(0)
  /\ NonEmptyList(Val(response.data.chunk_info).chunk_file_names)

\* C14: with chunk handling on, a decoded response whose only marker is
\* a chunk_info under data (no top-level link, no top-level chunk_info),
\* with rows > 0 and a non-empty chunk_file_names, is handed to the
\* resolver, and every named chunk has been fetched and merged when the
\* call returns.
C14_NestedMarkerResolved ==
  \A f \in Flows :
    LET rec == fl[f] IN
    (/\ IsSome(rec.raw)
     /\ ChunkHandlingOn(rec)
     /\ NestedMarkerOnly(Val(rec.raw)))
    => /\ rec.strategy = "nested_named"
       /\ rec.outcome = "returned" =>
            /\ Len(rec.calls)
                 = 1 + Len(Val(Val(Val(rec.raw).data.chunk_info).chunk_file_names))
            /\ rec.result.kind = "nested"
            /\ rec.result.v.items = FetchedRecords(FollowUps(rec))

\* The descriptor announces an empty dataset.
EmptyDescriptor(ci) ==
  \/ ci.total_chunks = Some(0)
  \/ ci.num_chunks = Some(0)
  \/ ci.rows = Some(0)

\* C15: when the descriptor the resolver works from, under data or at top
\* level, has a chunk count of 0 or rows = 0, the call makes no chunk
\* fetch: its endpoint request stays its only transport call.
C15_EmptyDescriptorNoFetch ==
  \A f \in Flows :
    LET rec == fl[f] IN
    (/\ rec.strategy \notin {"none", "link", "pass"}
     /\ EmptyDescriptor(ActiveDescriptor(Val(rec.raw))))
    => Len(rec.calls) = 1

\* data carries a chunk_info that calls for no chunk fetch: rows = 0,
\* num_chunks = 0, or no non-empty chunk_file_names.
NestedNothingToFetch(response) ==
  /\ response.data.kind # "absent"
  /\ IsSome(response.data.chunk_info)
  /\ LET ci == Val(response.data.chunk_info)
     IN  \/ ci.rows = Some(0)
         \/ ci.num_chunks = Some(0)
         \/ ~IsSome(ci.chunk_file_names)
         \/ Val(ci.chunk_file_names) = <<>>

\* The call is over: it returned the data object of the response itself
\* and made no transport call after its endpoint request.
ReturnedDataUntouched(rec) ==
  /\ rec.pc = "done"
  /\ rec.outcome = "returned"
  /\ rec.result = Result("nested", Val(rec.raw).data)
  /\ Len(rec.calls) = 1

\* C16 as stated: every response handed to the resolver whose data carries
\* a chunk_info with rows = 0, num_chunks = 0 or no non-empty
\* chunk_file_names comes back as that data object, with no further
\* transport call.
C16_Original_NestedEmptyAlwaysUntouched ==
  \A f \in Flows :
    (/\ fl[f].strategy # "none"
     /\ NestedNothingToFetch(Val(fl[f].raw)))
    => ReturnedDataUntouched(fl[f])

\* C16, amended: the same, for responses that are not link-only (a link
\* without a top-level chunk_info is followed first and data is then not
\* read).
C16_NestedEmptyUntouched ==
  \A f \in Flows :
    (/\ fl[f].strategy # "none"
     /\ NestedNothingToFetch(Val(fl[f].raw))
     /\ ~(IsSome(Val(fl[f].raw).link) /\ ~IsSome(Val(fl[f].raw).chunk_info)))
    => ReturnedDataUntouched(fl[f])

\* A response whose data.chunk_info has rows = 0 next to a list of chunk
\* file names, returned as its data object after one transport call.
C16_Witness ==
  \E f \in Flows :
    /\ fl[f].strategy = "nested_empty"
    /\ Val(Val(fl[f].raw).data.chunk_info).rows = Some(0)
    /\ NonEmptyList(Val(Val(fl[f].raw).data.chunk_info).chunk_file_names)
    /\ fl[f].outcome = "returned"
    /\ fl[f].result.v = Val(fl[f].raw).data
    /\ Len(fl[f].calls) = 1

\* C17: a link-only response handed to the resolver costs exactly one
\* further fetch, to the link URL; with a content-type containing text/csv
\* the call returns the text of the body, decodable as JSON or not;
\* otherwise it returns the JSON-decoded body as is.
C17_LinkOnlyOneFetch ==
  \A f \in Flows :
    LET rec == fl[f] IN
    (/\ rec.strategy # "none"
     /\ IsSome(Val(rec.raw).link)
     /\ ~IsSome(Val(rec.raw).chunk_info))
    => /\ rec.strategy = "link"
       /\ Len(rec.calls) = 2
       /\ rec.calls[2].url = Val(Val(rec.raw).link)
       /\ rec.pc \in {"link", "done"}
       /\ (rec.pc = "done" /\ rec.calls[2].kind = "ok") =>
            LET ct == rec.contentType
                csv == /\ IsSome(ct)
                       /\ \E i \in 1..Len(Val(ct)) : Val(ct)[i] = "text/csv"
            IN  /\ csv => /\ rec.outcome = "returned"
                          /\ rec.result = Result("text", rec.calls[2].body)
                /\ ~csv => /\ rec.result.kind # "text"
                           /\ rec.outcome = "returned" =>
                                rec.result = Result("json", rec.calls[2].body)

\* A link whose target answered text/csv with a charset parameter: the
\* call returned the text.
C17_Witness ==
  \E f \in Flows :
    /\ fl[f].strategy = "link"
    /\ fl[f].contentType = Some(<<"text/csv", ";", "charset=utf-8">>)
    /\ fl[f].outcome = "returned"
    /\ fl[f].result = Result("text", <<"payload-2">>)
    /\ Len(fl[f].calls) = 2

\* C18: with the client-wide flag on, whatever endpoint method was called,
\* a response with a top-level link or chunk_info has been handed to the
\* resolver by the time the method returns.
C18_EveryMethodResolves ==
  \A f \in Flows :
    LET rec == fl[f] IN
    (/\ rec.method \in Methods \ {"requestWithChunking"}
     /\ autoHandleChunkedResponses
     /\ rec.outcome = "returned"
     /\ HasChunkMarker(Val(rec.raw)))
    => rec.strategy # "none"

\* C19: of the transport calls of one call only the last can be
\* outstanding, and only while the flow awaits it; a link or chunk fetch
\* is issued after the endpoint response was decoded and not before the
\* call preceding it was issued.
C19_OneCallOutstanding ==
  \A f \in Flows :
    LET rec == fl[f] IN
    /\ \A k \in 1..Len(rec.calls) :
         rec.calls[k].kind = "pending" =>
           /\ k = Len(rec.calls)
           /\ rec.pc \in {"request", "auth", "link", "chunk"}
    /\ rec.pc \in {"request", "auth", "link", "chunk"} =>
         /\ Len(rec.calls) >= 1
         /\ rec.calls[Len(rec.calls)].kind = "pending"
    /\ Len(rec.calls) >= 2 => IsSome(rec.raw)
    /\ \A k \in 2..Len(rec.calls) : rec.calls[k].at >= rec.calls[k - 1].at

\* A chunk loop awaiting its second chunk, the first one fetched.
C19_Witness ==
  \E f \in Flows :
    /\ fl[f].strategy \in {"named", "nested_named", "fallback"}
    /\ fl[f].pc = "chunk"
    /\ Len(fl[f].calls) = 3
    /\ fl[f].calls[2].kind = "ok"
    /\ fl[f].calls[3].kind = "pending"

\* C20: handing the resolver a value it returned is a no-op: it returns
\* at once, with that value and without any transport call.
C20_ResolutionIdempotent ==
  \A f \in Flows :
    LET rec == fl[f] IN
    (rec.strategy # "none" /\ rec.outcome = "returned") =>
      LET value == AsResponse(rec.result)
          again == HandleChunkedResponse(
                     [IdleFlow EXCEPT !.raw = Some(value)], value, now)
      IN  /\ again.pc = "done"
          /\ again.outcome = "returned"
          /\ again.calls = <<>>
          /\ again.result = Result("response", value)

\* C21: whatever request a response answers (endpoint, authenticate, link
\* fetch, chunk fetch), when it has remaining <= 1 and a reset time in the
\* future the flow starts its next transport call no earlier than the
\* reset time, and an authenticate does not return before it.
C21_RateLimitAfterEveryRequest ==
  \A f \in Flows :
    LET rec == fl[f] IN
    /\ IsSome(rec.waitUntil) =>
         \A k \in 2..Len(rec.calls) : rec.calls[k].at >= Val(rec.waitUntil)
    /\ \A k \in 1..Len(rec.calls) :
         LET c == rec.calls[k]
             rem == IF IsSome(c.remaining) THEN NumberOf(Val(c.remaining))
                    ELSE None
             rst == IF IsSome(c.reset) THEN NumberOf(Val(c.reset)) ELSE None
         IN  (/\ IsSome(rem) /\ Val(rem) <= 1
              /\ IsSome(rst) /\ Val(rst) * 1000 > c.at)
             => /\ k < Len(rec.calls) => rec.calls[k + 1].at >= Val(rst) * 1000
                /\ (rec.method = "authenticate" /\ rec.pc = "done")
                     => now >= Val(rst) * 1000

\* What a resolution returns when run alone against the responses its own
\* transport calls received.
ResultAlone(rec) ==
  LET r == Val(rec.raw)
      own == FetchedRecords(FollowUps(rec))
  IN  CASE rec.strategy = "link" ->
             Result("json", rec.calls[Len(rec.calls)].body)
        [] rec.strategy \in {"single", "named", "fallback"} ->
             Result("response", [r EXCEPT !.data = ArrayData(own)])
        [] rec.strategy = "nested_named" ->
             Result("nested", [r.data EXCEPT !.items = own])
        [] OTHER -> rec.result

\* C22: of two endpoint calls in progress on one client, whatever the
\* interleaving, each accumulates exactly the records its own chunk
\* fetches returned and ends as it would alone: with the error of its own
\* refused fetch, or with the result made of its own response and its own
\* fetched bodies.
C22_ConcurrentCallsIndependent ==
  \A f \in Flows :
    LET rec == fl[f] IN
    (rec.method \in Methods /\ IsSome(rec.raw)) =>
      /\ rec.strategy \in {"named", "nested_named", "single", "fallback"}
           => rec.chunks = FetchedRecords(FollowUps(rec))
      /\ rec.pc = "done" =>
           IF rec.calls[Len(rec.calls)].kind = "status"
           THEN /\ rec.outcome = "thrown"
                /\ rec.error.status = rec.calls[Len(rec.calls)].status
           ELSE /\ rec.outcome = "returned"
                /\ rec.result = ResultAlone(rec)

\* Two chunk resolutions that overlapped in time and returned different
\* record arrays, each its own.
C22_Witness ==
  /\ \A f \in Flows : /\ fl[f].strategy = "named"
                      /\ fl[f].outcome = "returned"
                      /\ Len(fl[f].calls) = 1 + MaxChunks
  /\ fl[1].calls[2].at <= fl[2].calls[3].at
  /\ fl[2].calls[2].at <= fl[1].calls[3].at
  /\ fl[1].calls[2].body = <<2, 1>>
  /\ fl[2].calls[2].body = <<1, 1>>
  /\ ResultRecords(fl[1])[1] = 2
  /\ ResultRecords(fl[2])[1] = 1
  /\ Len(ResultRecords(fl[1])) = 2 * MaxChunks

\* C23: while a call sleeps out a rate limit window, another call on the
\* same client is not held back: it can be issued, can receive the answer
\* to its request and can have it decoded.
C23_WaitSuspendsOnlyItsFlow ==
  \A f \in Flows, g \in Flows :
    (f # g /\ fl[f].pc = "rate_wait") =>
      /\ fl[g].pc = "idle"
           => ENABLED CallEndpoint(g, "getCars", "absent", None)
      /\ fl[g].pc = "request"
           => ENABLED RequestAnswered(g, TRUE, 200, None, Some("3"), 0)
      /\ fl[g].pc = "decode"
           => ENABLED Decoded(g, RawResponse(Some(LinkUrl), None, AbsentData))
      /\ fl[g].pc = "link"
           => ENABLED LinkFetched(g, Some(<<"application/json">>),
                                  <<"payload-1">>, TRUE, NoRateHeaders)

\* A call issued after another began to wait for the reset, and returned
\* while that one was still waiting.
C23_Witness ==
  \E f \in Flows, g \in Flows :
    /\ f # g
    /\ fl[f].pc = "rate_wait"
    /\ fl[g].outcome = "returned"
    /\ fl[g].waitUntil = None
    /\ Len(fl[g].calls) = 2
    /\ fl[g].calls[1].at >= Val(fl[f].head).at
    /\ fl[g].calls[1].at > fl[f].calls[1].at
    /\ now < Val(fl[f].waitUntil)

\* C24: authenticate never enters chunk resolution: it makes at most one
\* transport call, the POST to the auth endpoint, selects no strategy and
\* accumulates no chunk; a decoded auth response is returned as it is,
\* link and chunk_info fields included.
C24_AuthenticateNeverResolves ==
  \A f \in Flows :
    LET rec == fl[f] IN
    rec.method = "authenticate" =>
      /\ rec.pc \in {"auth", "done"}
      /\ Len(rec.calls) <= 1
      /\ \A k \in 1..Len(rec.calls) :
           /\ rec.calls[k].url = ApiBaseUrl \o PathOf("authenticate")
           /\ IsSome(rec.calls[k].sent)
      /\ rec.strategy = "none"
      /\ rec.chunks = <<>>
      /\ rec.raw = None
      /\ (Len(rec.calls) = 1 /\ rec.calls[1].kind = "ok") =>
           /\ rec.outcome = "returned"
           /\ rec.result = Result("auth", rec.calls[1].body[1])

\* An authenticate whose response carried a link (or a chunk_info)
\* returned it after its one call.
C24_Witness ==
  \E f \in Flows :
    /\ fl[f].method = "authenticate"
    /\ fl[f].outcome = "returned"
    /\ Len(fl[f].calls) = 1
    /\ \/ fl[f].result.v.link = Some(LinkUrl)
       \/ IsSome(fl[f].result.v.chunk_info)
    /\ fl[f].result.v = fl[f].calls[1].body[1]

\* Two texts that differ at most in the case of their letters.
SameButCase(a, b) ==
  /\ Len(a) = Len(b)
  /\ \A i \in 1..Len(a) :
       \/ a[i] = b[i]
       \/ {a[i], b[i]} \in {{"USER", "user"}, {"Example", "example"}}
IsLowerCase(text) ==
  \A i \in 1..Len(text) : text[i] \notin {"USER", "Example"}

\* C25: the body authenticate sends carries the lower-cased email and the
\* digest of the password followed by the lower-cased email, and it is the
\* body any authenticate call with the same password and an email that
\* differs only in letter case sends.
C25_AuthBodyCaseInsensitive ==
  \A f \in Flows :
    LET rec == fl[f] IN
    (rec.method = "authenticate" /\ Len(rec.calls) = 1) =>
      LET body == Val(rec.calls[1].sent) IN
      /\ IsLowerCase(body.email)
      /\ SameButCase(body.email, rec.email)
      /\ body.password = <<"sha256-base64:", rec.password>> \o body.email
      /\ \A other \in Emails :
           SameButCase(other, rec.email) =>
             AuthBody(other, rec.password) = body

\* An authenticate called with an email in mixed case sent the lower-cased
\* email, and the call with the lower-cased email sends the same body.
C25_Witness ==
  \E f \in Flows :
    /\ fl[f].method = "authenticate"
    /\ fl[f].email = <<"USER", "@", "Example", ".", "com">>
    /\ Len(fl[f].calls) = 1
    /\ Val(fl[f].calls[1].sent).email = <<"user", "@", "example", ".", "com">>
    /\ Val(fl[f].calls[1].sent) =
         AuthBody(<<"user", "@", "example", ".", "com">>, fl[f].password)
    /\ fl[f].outcome = "returned"

\* A call that returned from one of the chunk-fetching branches.
ChunkResolved(rec) ==
  /\ rec.outcome = "returned"
  /\ rec.strategy \in {"single", "named", "fallback", "nested_named"}

\* The result has the fields of the object that carried the chunk_info,
\* with their values, but for the data array, which is the concatenation
\* of the fetched chunks.
EqualButData(rec) ==
  LET r == Val(rec.raw)
      own == FetchedRecords(FollowUps(rec))
      v == rec.result.v
  IN  IF rec.strategy = "nested_named"
      THEN /\ rec.result.kind = "nested"
           /\ DOMAIN v = DOMAIN r.data
           /\ \A field \in DOMAIN v \ {"items"} : v[field] = r.data[field]
           /\ IsSome(v.chunk_info)
           /\ v.items = own
      ELSE /\ rec.result.kind = "response"
           /\ DOMAIN v = DOMAIN r
           /\ \A field \in DOMAIN v \ {"data"} : v[field] = r[field]
           /\ IsSome(v.chunk_info)
           /\ v.data = ArrayData(own)

\* The response a call decoded stays as it was received.
RawUntouched ==
  \A f \in Flows : IsSome(fl[f].raw) => fl'[f].raw = fl[f].raw

\* C26: a chunk-resolved result equals the object that carried the
\* chunk_info (the response, or response.data for a nested chunk_info) in
\* every field but data, which is the concatenated array; its chunk_info
\* is the original descriptor; and no step changes the decoded response.
C26_ResultCopiesCarrier ==
  /\ [](\A f \in Flows : ChunkResolved(fl[f]) => EqualButData(fl[f]))
  /\ [][RawUntouched]_vars

\* A response with a link, a chunk_info naming several chunks and an empty
\* data array, returned with link and chunk_info kept and data filled,
\* while the decoded response still has its empty array.
C26_Witness ==
  \E f \in Flows :
    /\ fl[f].outcome = "returned"
    /\ fl[f].strategy = "named"
    /\ Val(fl[f].raw).link = Some(LinkUrl)
    /\ fl[f].result.v.link = Some(LinkUrl)
    /\ fl[f].result.v.chunk_info = Val(fl[f].raw).chunk_info
    /\ Val(fl[f].raw).data.items = <<>>
    /\ Len(fl[f].result.v.data.items) = 2 * MaxChunks

\* C27: the resolver takes one branch per response, the first that
\* matches of: link without top-level chunk_info (the link alone is
\* fetched, whatever data carries); data.chunk_info (the nested branch,
\* whatever the top level carries); top-level chunk_info, as a single
\* chunk before a name list before index-derived names; pass-through.  A
\* link next to a top-level chunk_info is never fetched.
C27_StrategyOrder ==
  \A f \in Flows :
    LET rec == fl[f] IN
    rec.strategy # "none" =>
      LET r == Val(rec.raw)
          top == r.chunk_info
          nested == r.data.chunk_info
          fetches == FollowUps(rec)
      IN  /\ (IsSome(r.link) /\ ~IsSome(top)) =>
               /\ rec.strategy = "link"
               /\ Len(fetches) = 1
               /\ fetches[1].url = Val(r.link)
          /\ (~(IsSome(r.link) /\ ~IsSome(top)) /\ IsSome(nested)) =>
               /\ rec.strategy \in {"nested_empty", "nested_named", "nested_asis"}
               /\ \A k \in 1..Len(fetches) :
                    fetches[k].url = Val(nested).base_download_url
                                       \o Val(Val(nested).chunk_file_names)[k]
          /\ (IsSome(top) /\ ~IsSome(nested)) =>
               LET ci == Val(top) IN
               rec.strategy =
                 IF ci.total_chunks = Some(1) /\ IsSome(ci.chunk_file_name)
                 THEN "single"
                 ELSE IF IsSome(ci.chunk_file_names)
                         /\ Val(ci.chunk_file_names) # <<>>
                 THEN "named"
                 ELSE "fallback"
          /\ (~IsSome(r.link) /\ ~IsSome(top) /\ ~IsSome(nested)) =>
               /\ rec.strategy = "pass"
               /\ fetches = <<>>
          /\ IsSome(top) =>
               \A k \in 1..Len(fetches) : fetches[k].url # LinkUrl
          /\ rec.strategy = "single" =>
               \A k \in 1..Len(fetches) :
                 fetches[k].url = BaseDownloadUrl \o ChunkFileName

\* A response carrying a link, a top-level chunk_info and a
\* data.chunk_info, resolved by the nested branch without a fetch of the
\* link or of the top-level chunk.
C27_Witness ==
  \E f \in Flows :
    /\ fl[f].outcome = "returned"
    /\ fl[f].strategy = "nested_named"
    /\ Val(fl[f].raw).link = Some(LinkUrl)
    /\ IsSome(Val(fl[f].raw).chunk_info)
    /\ Val(Val(fl[f].raw).chunk_info).total_chunks = Some(1)
    /\ Len(fl[f].calls) = 1 + MaxChunks
    /\ \A k \in 2..Len(fl[f].calls) :
         fl[f].calls[k].url \notin {LinkUrl, BaseDownloadUrl \o ChunkFileName}

\* C28: in the chunk loops (nested name list, top-level name list,
\* index-derived names) a chunk fetch starts no earlier than the fixed
\* delay after the chunk fetch before it.
C28_DelayBetweenChunkFetches ==
  \A f \in Flows :
    LET rec == fl[f] IN
    rec.strategy \in {"nested_named", "named", "fallback"} =>
      \A k \in 3..Len(rec.calls) :
        rec.calls[k].at >= rec.calls[k - 1].at + ChunkDelayMs

\* C29: the index-derived fallback branch attempts exactly total_chunks
\* fetches, for the indices from 0 in ascending order, to
\* base_download_url + stripped base name + '_' + i + '.json', and always
\* ends with a result: the call never throws.
C29_FallbackAlwaysCompletes ==
  \A f \in Flows :
    LET rec == fl[f] IN
    rec.strategy = "fallback" =>
      LET ci == Val(Val(rec.raw).chunk_info)
          fetches == FollowUps(rec)
      IN  /\ rec.outcome # "thrown"
          /\ Len(fetches) <= FallbackCount(ci)
          /\ \A i \in 1..Len(fetches) :
               fetches[i].url =
                 ci.base_download_url
                   \o StripExtension(Val(ci.chunk_file_name))
                   \o <<"_", IndexToString(i - 1), ".", "json">>
          /\ rec.pc = "done" =>
               /\ rec.outcome = "returned"
               /\ Len(fetches) = FallbackCount(ci)

\* The endpoint answered with a non-success status and with rate limit
\* headers that announce an exhausted window with a reset in the future.
RefusedAndExhausted(h) ==
  /\ ~h.ok
  /\ IsSome(h.remaining) /\ IsSome(h.reset)
  /\ IsSome(NumberOf(Val(h.remaining)))
  /\ Val(NumberOf(Val(h.remaining))) <= 1
  /\ IsSome(NumberOf(Val(h.reset)))
  /\ Val(NumberOf(Val(h.reset))) * 1000 > h.at

\* C30: an endpoint response that has a non-success status and announces
\* an exhausted window with a future reset makes the call wait first,
\* with nothing thrown yet, and throw the HTTP error of that status only
\* once the reset time has come.
C30_WaitBeforeStatusCheck ==
  \A f \in Flows :
    LET rec == fl[f] IN
    (IsSome(rec.head) /\ RefusedAndExhausted(Val(rec.head))) =>
      LET h == Val(rec.head)
          resetMs == Val(NumberOf(Val(h.reset))) * 1000
      IN  /\ Len(rec.calls) = 1
          /\ rec.waitUntil = Some(resetMs)
          /\ rec.pc \in {"rate_wait", "done"}
          /\ rec.pc = "rate_wait" =>
               /\ rec.outcome = "none"
               /\ rec.error = NoError
          /\ rec.pc = "done" =>
               /\ now >= resetMs
               /\ rec.outcome = "thrown"
               /\ rec.error = Error("Error", "HTTP error! status: ", h.status)

\* A request answered 500 at 2300 ms with remaining 0 and a reset at
\* 3000 ms: the call threw the HTTP error at 3000 ms.
C30_Witness ==
  \E f \in Flows :
    /\ fl[f].outcome = "thrown"
    /\ IsSome(fl[f].head)
    /\ Val(fl[f].head).status = 500
    /\ Val(fl[f].head).at = 2300
    /\ Val(fl[f].head).remaining = Some("0")
    /\ fl[f].waitUntil = Some(3000)
    /\ now = 3000
    /\ fl[f].error.status = 500

====
